---- MODULE Spec2Model ----
(***************************************************************************)
(* A model of the signaling client of src/ayame/connection.go: one         *)
(* Connection object, the consumer calling Connect / Disconnect / On*,     *)
(* the read task (recv) and the dispatch task (main) that every successful *)
(* Connect starts, the engine's ICE callback and the close-poll goroutine. *)
(*                                                                         *)
(* Atomicity: a step ends where the code can wait (the callback lock, a    *)
(* dial, a network read, a channel send or receive) and where the code     *)
(* leaves the lock and reads a shared field again.  Fields the code reads  *)
(* twice without the lock while another task is inside Disconnect (the     *)
(* check-then-use of c.ws and c.pc) have the outcomes the race allows,     *)
(* a nil dereference (panicked) among them.                                *)
(***************************************************************************)
EXTENDS Integers, Sequences, FiniteSets, TLC

\* ------------------------------------------------------------------ bounds
\* Connect calls that get past the already-connected check (SpecReuse allows
\* one more, for a Connect -> Disconnect -> Connect round trip).
MaxConn == 1
\* Sessions the engine is asked to create.
MaxSess == 2
\* Frames the relay sends, over all transports.
MaxFrames == 2
\* Capacity of the frame queue (make(chan []byte, 100) in the source).
QueueCap == 1
\* Connectivity-phase changes the engine reports.
MaxIce == 1
\* Times the consumer registers each of its handlers.
MaxReg == 1

Gens == 1..(MaxConn + 1)
Sessions == 1..MaxSess

\* ------------------------------------------------------------------- tasks
App == <<"app", 0>>
Ice == <<"ice", 0>>
Recv(g) == <<"recv", g>>
Main(g) == <<"main", g>>
NoTask == <<"none", 0>>
Tasks == {App, Ice} \cup {Recv(g) : g \in Gens} \cup {Main(g) : g \in Gens}

HandlerNames == {"open", "connect", "disconnect", "track", "bye"}
OutKinds == {"register", "pong", "offer", "answer"}
Phases == {"connected", "disconnected", "failed"}

\* ------------------------------------------------------------------ frames
\* An inbound frame: its type tag, and what the model needs of its body.
\*   accept: id = connectionId and authzMetadata (the relay issues one per
\*           registration, so a frame read from transport t carries t),
\*           flag = isExistUser
\*   reject: flag = TRUE for reason "full", FALSE for an absent/empty reason
\*   offer, answer: flag = the engine accepts this description
\*   badjson: bytes json.Unmarshal rejects; unknown: absent/unrecognized type
Frame(ty, id, flag) == [type |-> ty, id |-> id, flag |-> flag]
NoFrame == Frame("none", 0, FALSE)
FramesOn(t) ==
    {Frame(ty, 0, FALSE) : ty \in {"ping", "bye", "badjson", "unknown"}}
    \cup {Frame("accept", t, b) : b \in BOOLEAN}
    \cup {Frame(ty, 0, b) : ty \in {"reject", "offer", "answer"}, b \in BOOLEAN}
AllFrames == UNION {FramesOn(t) : t \in Gens}

VARIABLES
    ws,              \* c.ws: 0 = nil, else the transport
    pc,              \* c.pc: 0 = nil, else the session
    authzMetadata,   \* c.authzMetadata: 0 = nil
    connectionID,    \* c.connectionID: 0 = ""
    connectionState, \* c.connectionState
    isOffer,         \* c.isOffer
    isExistClient,   \* c.isExistClient
    handlers,        \* the five handler fields: "stub" or "user"
    mu,              \* c.callbackMu: the task holding it, or NoTask
    tpc,             \* where each task is
    tNote,           \* per task: the on-disconnect call that follows its Disconnect
    tNext,           \* per task: where it continues after Disconnect (+ handler)
    queue,           \* messageChannel of each Connect
    qClosed,         \* close(messageChannel) done
    cancelled,       \* ctx of each Connect cancelled (main returned)
    held,            \* frame recv holds while blocked on a full channel
    rdWs,            \* transport recv's pending Read was issued on
    wsState,         \* per transport: "unopened", "open", "broken", "closed"
    wsCloseCnt,      \* per transport: calls of ws.Close
    sent,            \* per transport: frames written, by kind
    nConn,           \* Connect calls past the check
    nFrames,         \* frames read so far
    nSess,           \* sessions created
    sig,             \* per session: signaling state of the engine
    pcCloseCnt,      \* per session: calls of pc.Close
    iceCb,           \* per session: the ICE callback is still the real one
    pollers,         \* running close-poll goroutines
    videoCodec,      \* c.Options.Video.Codec, fixed at construction
    nIce,            \* phase changes reported
    nReg,            \* per handler: registrations by the consumer
    calls,           \* invocations of consumer-registered handlers
    lastDisc,        \* reason of the last consumer on-disconnect invocation
    lastOpen,        \* metadata of the last consumer on-open invocation
    appRet,          \* result of the consumer's last completed call
    panicked         \* a nil dereference ended the process

vars == <<ws, pc, authzMetadata, connectionID, connectionState, isOffer,
          isExistClient, handlers, mu, tpc, tNote, tNext, queue, qClosed,
          cancelled, held, rdWs, wsState, wsCloseCnt, sent, nConn, nFrames,
          nSess, sig, pcCloseCnt, iceCb, pollers, videoCodec, nIce,
          nReg, calls, lastDisc, lastOpen, appRet, panicked>>

\* groups, for UNCHANGED
derived == <<authzMetadata, connectionID, connectionState, isOffer, isExistClient>>
chans == <<queue, qClosed, cancelled, held, rdWs>>
wire == <<wsState, wsCloseCnt, sent>>
engine == <<nSess, sig, pcCloseCnt, iceCb, pollers, videoCodec>>
ghosts == <<nReg, calls, lastDisc, lastOpen>>

NoNote == [notify |-> FALSE, reason |-> "", user |-> FALSE]
Stubs == [h \in HandlerNames |-> "stub"]

\* The fields of a Connection as its constructor leaves them.
NewConnection ==
    /\ ws = 0 /\ pc = 0
    /\ authzMetadata = 0 /\ connectionID = 0
    /\ connectionState = "new"
    /\ isOffer = FALSE /\ isExistClient = FALSE
    /\ handlers = Stubs
    /\ mu = NoTask

Init ==
    /\ NewConnection
    /\ tpc = [t \in Tasks |-> IF t \in {App, Ice} THEN "idle" ELSE "unborn"]
    /\ tNote = [t \in Tasks |-> NoNote]
    /\ tNext = [t \in Tasks |-> "idle"]
    /\ queue = [g \in Gens |-> <<>>]
    /\ qClosed = [g \in Gens |-> FALSE]
    /\ cancelled = [g \in Gens |-> FALSE]
    /\ held = [g \in Gens |-> NoFrame]
    /\ rdWs = [g \in Gens |-> 0]
    /\ wsState = [t \in Gens |-> "unopened"]
    /\ wsCloseCnt = [t \in Gens |-> 0]
    /\ sent = [t \in Gens |-> [k \in OutKinds |-> 0]]
    /\ nConn = 0 /\ nFrames = 0
    /\ nSess = 0
    /\ sig = [s \in Sessions |-> "none"]
    /\ pcCloseCnt = [s \in Sessions |-> 0]
    /\ iceCb = [s \in Sessions |-> FALSE]
    /\ pollers = 0 /\ nIce = 0
    /\ videoCodec \in {"VP8", "H264"}
    /\ nReg = [h \in HandlerNames |-> 0]
    /\ calls = [h \in HandlerNames |-> 0]
    /\ lastDisc = "" /\ lastOpen = 0
    /\ appRet = "none"
    /\ panicked = FALSE

\* ------------------------------------------------------------ the transport
\* wsjson.Write on transport t: the frame goes out iff the transport is open.
Written(s, t, kind) ==
    IF wsState[t] = "open"
    THEN [s EXCEPT ![t][kind] = @ + 1]
    ELSE s

\* sendMsg: nothing when c.ws is nil.
sendMsg(s, kind) == IF ws # 0 THEN Written(s, ws, kind) ELSE s

\* Another task is inside Disconnect: c.ws / c.pc may turn nil between an
\* unlocked check and the use that follows it.
Tearing(t) == mu # NoTask /\ mu # t

\* ------------------------------------------------------------ the consumer
\* OnOpen .. OnBye: lock, store the handler, unlock.
Register(h) ==
    /\ ~panicked
    /\ tpc[App] = "idle" /\ mu = NoTask
    /\ nReg[h] < MaxReg
    /\ nReg' = [nReg EXCEPT ![h] = @ + 1]
    /\ handlers' = [handlers EXCEPT ![h] = "user"]
    /\ UNCHANGED <<ws, pc, derived, mu, tpc, tNote, tNext, chans, wire, nConn,
                   nFrames, engine, nIce, calls, lastDisc, lastOpen, appRet,
                   panicked>>

OnOpen == Register("open")
OnConnect == Register("connect")
OnDisconnect == Register("disconnect")
OnTrackPacket == Register("track")
OnBye == Register("bye")

\* (variant: a check that looks at the transport only)
AlreadyConnectedWsOnly == ws # 0
\* Connect, line 70.
AlreadyConnected == ws # 0 \/ pc # 0

\* Connect, lines 70-73: already connected.
ConnectReject ==
    /\ ~panicked
    /\ tpc[App] = "idle"
    /\ AlreadyConnected
    /\ appRet' = "connect-error"
    /\ UNCHANGED <<ws, pc, derived, handlers, mu, tpc, tNote, tNext, chans, wire,
                   nConn, nFrames, engine, nIce, ghosts, panicked>>

\* Connect, line 70 passed, and signaling up to the dial.
ConnectCheck(limit) ==
    /\ ~panicked
    /\ tpc[App] = "idle"
    /\ ~AlreadyConnected
    /\ nConn < limit
    /\ nConn' = nConn + 1
    /\ tpc' = [tpc EXCEPT ![App] = "dial"]
    /\ UNCHANGED <<ws, pc, derived, handlers, mu, tNote, tNext, chans, wire,
                   nFrames, engine, nIce, ghosts, appRet, panicked>>

\* signaling, lines 146-149: the dial fails, the error is dropped by Connect.
ConnectDialFail ==
    /\ ~panicked
    /\ tpc[App] = "dial"
    /\ tpc' = [tpc EXCEPT ![App] = "idle"]
    /\ appRet' = "connect-nil"
    /\ UNCHANGED <<ws, pc, derived, handlers, mu, tNote, tNext, chans, wire,
                   nConn, nFrames, engine, nIce, ghosts, panicked>>

\* signaling, lines 150-156: store the handle, start recv and main.
ConnectDialOk ==
    /\ ~panicked
    /\ tpc[App] = "dial"
    /\ LET t == nConn IN
        /\ ws' = t
        /\ wsState' = [wsState EXCEPT ![t] = "open"]
        /\ tpc' = [tpc EXCEPT ![App] = "register",
                              ![Recv(t)] = "loop",
                              ![Main(t)] = "loop"]
    /\ UNCHANGED <<pc, derived, handlers, mu, tNote, tNext, chans, wsCloseCnt,
                   sent, nConn, nFrames, engine, nIce, ghosts,
                   appRet, panicked>>

\* signaling, line 158: sendRegisterMessage; Connect returns nil.
ConnectRegister ==
    /\ ~panicked
    /\ tpc[App] = "register"
    /\ \/ /\ sent' = sendMsg(sent, "register")
          /\ tpc' = [tpc EXCEPT ![App] = "idle"]
          /\ appRet' = "connect-nil"
          /\ UNCHANGED panicked
       \/ /\ ws # 0 /\ Tearing(App)
          /\ panicked' = TRUE
          /\ UNCHANGED <<sent, tpc, appRet>>
    /\ UNCHANGED <<ws, pc, derived, handlers, mu, tNote, tNext, chans, wsState,
                   wsCloseCnt, nConn, nFrames, engine, nIce, ghosts>>

\* The consumer calls Disconnect.
AppDisconnect ==
    /\ ~panicked
    /\ tpc[App] = "idle"
    /\ tpc' = [tpc EXCEPT ![App] = "disc_want"]
    /\ tNote' = [tNote EXCEPT ![App] = NoNote]
    /\ tNext' = [tNext EXCEPT ![App] = "idle"]
    /\ UNCHANGED <<ws, pc, derived, handlers, mu, chans, wire, nConn, nFrames,
                   engine, nIce, ghosts, appRet, panicked>>

\* -------------------------------------------------------------- Disconnect
\* Disconnect, line 80: callbackMu.Lock().
DisconnectLock(t) ==
    /\ ~panicked
    /\ tpc[t] = "disc_want" /\ mu = NoTask
    /\ mu' = t
    /\ tpc' = [tpc EXCEPT ![t] = "disc_held"]
    /\ UNCHANGED <<ws, pc, derived, handlers, tNote, tNext, chans, wire, nConn,
                   nFrames, engine, nIce, ghosts, appRet, panicked>>

\* closePeerConnection: the session handle afterwards.
closePeerConnectionPc == IF pc # 0 /\ sig[pc] = "closed" THEN 0 ELSE pc
\* (variant: no look at the signaling state before Close)
closePeerConnectionClosesAgain == pc # 0
\* closePeerConnection reaches pc.Close() (lines 420-434).
closePeerConnectionCloses == pc # 0 /\ sig[pc] # "closed"

\* Where a task is once its Disconnect (and the handler call after it) is over;
\* main's deferred cancel() runs when handleMessage returned an error.
After(t) == IF tNext[t] = "exit" THEN "exited" ELSE tNext[t]
CancelIfExit(t) ==
    IF tNext[t] = "exit" THEN [cancelled EXCEPT ![t[2]] = TRUE] ELSE cancelled

\* Disconnect, lines 83-96, and the unlock.
DisconnectBody(t) ==
    /\ ~panicked
    /\ tpc[t] = "disc_held" /\ mu = t
    /\ pc' = closePeerConnectionPc
    /\ IF closePeerConnectionCloses
       THEN /\ iceCb' = [iceCb EXCEPT ![pc] = FALSE]
            /\ pollers' = pollers + 1
            /\ sig' = [sig EXCEPT ![pc] = "closed"]
            /\ pcCloseCnt' = [pcCloseCnt EXCEPT ![pc] = @ + 1]
       ELSE UNCHANGED <<iceCb, pollers, sig, pcCloseCnt>>
    /\ IF ws # 0
       THEN /\ wsCloseCnt' = [wsCloseCnt EXCEPT ![ws] = @ + 1]
            /\ wsState' = [wsState EXCEPT ![ws] = "closed"]
       ELSE UNCHANGED <<wsCloseCnt, wsState>>
    /\ ws' = 0
    /\ authzMetadata' = 0
    /\ connectionID' = 0
    /\ connectionState' = "new"
    /\ isOffer' = FALSE
    /\ isExistClient' = FALSE
    /\ handlers' = Stubs
    /\ mu' = NoTask
    /\ IF tNote[t].notify
       THEN /\ tpc' = [tpc EXCEPT ![t] = "notify"]
            /\ UNCHANGED <<cancelled, appRet>>
       ELSE /\ tpc' = [tpc EXCEPT ![t] = After(t)]
            /\ cancelled' = CancelIfExit(t)
            /\ appRet' = IF t = App THEN "disconnect" ELSE appRet
    /\ UNCHANGED <<tNote, tNext, queue, qClosed, held, rdWs, sent, nConn,
                   nFrames, nSess, videoCodec, nIce, ghosts, panicked>>

\* closePeerConnection, lines 413-416, while a poll goroutine sets c.pc to nil
\* between the two reads of c.pc: a nil dereference.
DisconnectPanic(t) ==
    /\ ~panicked
    /\ tpc[t] = "disc_held" /\ mu = t
    /\ pc # 0 /\ sig[pc] = "closed" /\ pollers > 0
    /\ panicked' = TRUE
    /\ UNCHANGED <<ws, pc, derived, handlers, mu, tpc, tNote, tNext, chans, wire,
                   nConn, nFrames, engine, nIce, ghosts, appRet>>

\* c.onDisconnectHandler(reason, err) after Disconnect has returned.
Notify(t) ==
    /\ ~panicked
    /\ tpc[t] = "notify"
    /\ IF handlers["disconnect"] = "user"
       THEN /\ calls' = [calls EXCEPT !["disconnect"] = @ + 1]
            /\ lastDisc' = tNote[t].reason
       ELSE UNCHANGED <<calls, lastDisc>>
    /\ tpc' = [tpc EXCEPT ![t] = After(t)]
    /\ cancelled' = CancelIfExit(t)
    /\ UNCHANGED <<ws, pc, derived, handlers, mu, tNote, tNext, queue, qClosed,
                   held, rdWs, wire, nConn, nFrames, engine, nIce, nReg,
                   lastOpen, appRet, panicked>>

\* closePeerConnection, lines 422-433: one tick of a close-poll goroutine that
\* ends it (a tick that finds a live session changes nothing).
PollTick ==
    /\ ~panicked
    /\ pollers > 0
    /\ IF pc = 0 THEN TRUE ELSE sig[pc] = "closed"
    /\ pc' = 0
    /\ pollers' = pollers - 1
    /\ UNCHANGED <<ws, derived, handlers, mu, tpc, tNote, tNext, chans, wire,
                   nConn, nFrames, nSess, sig, pcCloseCnt, iceCb,
                   videoCodec, nIce, ghosts, appRet, panicked>>

\* Two poll goroutines tick together on a closed session: the second one
\* dereferences the nil the first one stored (lines 428-429).
PollPanic ==
    /\ ~panicked
    /\ pollers > 1
    /\ pc # 0 /\ sig[pc] = "closed"
    /\ panicked' = TRUE
    /\ UNCHANGED <<ws, pc, derived, handlers, mu, tpc, tNote, tNext, chans, wire,
                   nConn, nFrames, engine, nIce, ghosts, appRet>>

\* ----------------------------------------------------------- the read task
\* recv, lines 473-478: the nil check, then Read is issued on the handle.
RecvBegin(g) ==
    /\ ~panicked
    /\ tpc[Recv(g)] = "loop"
    /\ ws # 0
    /\ \/ /\ rdWs' = [rdWs EXCEPT ![g] = ws]
          /\ tpc' = [tpc EXCEPT ![Recv(g)] = "reading"]
          /\ UNCHANGED panicked
       \/ /\ Tearing(Recv(g))
          /\ panicked' = TRUE
          /\ UNCHANGED <<rdWs, tpc>>
    /\ UNCHANGED <<ws, pc, derived, handlers, mu, tNote, tNext, queue, qClosed,
                   cancelled, held, wire, nConn, nFrames, engine,
                   nIce, ghosts, appRet>>

\* recv, lines 473-474 and 486: c.ws is nil, leave the loop, close the channel.
RecvNil(g) ==
    /\ ~panicked
    /\ tpc[Recv(g)] = "loop"
    /\ ws = 0
    /\ qClosed' = [qClosed EXCEPT ![g] = TRUE]
    /\ tpc' = [tpc EXCEPT ![Recv(g)] = "wait"]
    /\ UNCHANGED <<ws, pc, derived, handlers, mu, tNote, tNext, queue, cancelled,
                   held, rdWs, wire, nConn, nFrames, engine, nIce,
                   ghosts, appRet, panicked>>

\* recv, lines 478-484: Read returns a frame; it goes into the channel, or the
\* task blocks on the full channel holding it.
RecvFrameUpTo(g, f, limit) ==
    /\ ~panicked
    /\ tpc[Recv(g)] = "reading"
    /\ wsState[rdWs[g]] = "open" /\ ~cancelled[g]
    /\ nFrames < limit
    /\ f \in FramesOn(rdWs[g])
    /\ nFrames' = nFrames + 1
    /\ IF Len(queue[g]) < QueueCap
       THEN /\ queue' = [queue EXCEPT ![g] = Append(@, f)]
            /\ tpc' = [tpc EXCEPT ![Recv(g)] = "loop"]
            /\ UNCHANGED held
       ELSE /\ held' = [held EXCEPT ![g] = f]
            /\ tpc' = [tpc EXCEPT ![Recv(g)] = "blocked"]
            /\ UNCHANGED queue
    /\ UNCHANGED <<ws, pc, derived, handlers, mu, tNote, tNext, qClosed,
                   cancelled, rdWs, wire, nConn, engine, nIce, ghosts, appRet,
                   panicked>>

RecvFrame(g, f) == RecvFrameUpTo(g, f, MaxFrames)

\* recv, line 484: the blocked channel send completes.
RecvUnblock(g) ==
    /\ ~panicked
    /\ tpc[Recv(g)] = "blocked"
    /\ Len(queue[g]) < QueueCap
    /\ queue' = [queue EXCEPT ![g] = Append(@, held[g])]
    /\ held' = [held EXCEPT ![g] = NoFrame]
    /\ tpc' = [tpc EXCEPT ![Recv(g)] = "loop"]
    /\ UNCHANGED <<ws, pc, derived, handlers, mu, tNote, tNext, qClosed,
                   cancelled, rdWs, wire, nConn, nFrames, engine,
                   nIce, ghosts, appRet, panicked>>

\* recv, lines 478-486: Read fails (the peer closed, the 90 s timeout, the
\* transport was closed here, or ctx was cancelled); the library leaves the
\* transport unusable; the channel is closed.
RecvReadErr(g) ==
    /\ ~panicked
    /\ tpc[Recv(g)] = "reading"
    /\ wsState' = [wsState EXCEPT ![rdWs[g]] = IF @ = "open" THEN "broken" ELSE @]
    /\ qClosed' = [qClosed EXCEPT ![g] = TRUE]
    /\ tpc' = [tpc EXCEPT ![Recv(g)] = "wait"]
    /\ UNCHANGED <<ws, pc, derived, handlers, mu, tNote, tNext, queue, cancelled,
                   held, rdWs, wsCloseCnt, sent, nConn, nFrames,
                   engine, nIce, ghosts, appRet, panicked>>

\* recv, lines 488-491: <-ctx.Done() returned; Disconnect, then the handler.
RecvDone(g) ==
    /\ ~panicked
    /\ tpc[Recv(g)] = "wait"
    /\ cancelled[g]
    /\ tpc' = [tpc EXCEPT ![Recv(g)] = "disc_want"]
    /\ tNote' = [tNote EXCEPT ![Recv(g)] =
                    [notify |-> TRUE, reason |-> "EXIT-RECV",
                     user |-> handlers["disconnect"] = "user"]]
    /\ tNext' = [tNext EXCEPT ![Recv(g)] = "exited"]
    /\ UNCHANGED <<ws, pc, derived, handlers, mu, chans, wire, nConn, nFrames,
                   engine, nIce, ghosts, appRet, panicked>>

\* ------------------------------------------------------- the dispatch task
Front(g) == IF queue[g] = <<>> THEN NoFrame ELSE Head(queue[g])
Taking(g, ty) == tpc[Main(g)] = "loop" /\ Front(g).type = ty
Pop(g) == [queue EXCEPT ![g] = Tail(@)]

\* main, lines 459-462: the channel is closed and drained; deferred cancel().
MainClosed(g) ==
    /\ ~panicked
    /\ tpc[Main(g)] = "loop"
    /\ queue[g] = <<>> /\ qClosed[g]
    /\ cancelled' = [cancelled EXCEPT ![g] = TRUE]
    /\ tpc' = [tpc EXCEPT ![Main(g)] = "exited"]
    /\ UNCHANGED <<ws, pc, derived, handlers, mu, tNote, tNext, queue, qClosed,
                   held, rdWs, wire, nConn, nFrames, engine, nIce,
                   ghosts, appRet, panicked>>

\* (variant: an invalid frame is dropped and the loop goes on)
HandleInvalidSkip(g) ==
    /\ ~panicked
    /\ Taking(g, "badjson") \/ Taking(g, "unknown")
    /\ queue' = Pop(g)
    /\ UNCHANGED <<ws, pc, derived, handlers, mu, tpc, tNote, tNext, qClosed,
                   cancelled, held, rdWs, wire, nConn, nFrames, engine, nIce,
                   ghosts, appRet, panicked>>

\* handleMessage, lines 497-500 and 576-578: errorInvalidJSON or
\* errorInvalidMessageType; main leaves its loop, deferred cancel().
HandleInvalid(g) ==
    /\ ~panicked
    /\ Taking(g, "badjson") \/ Taking(g, "unknown")
    /\ queue' = Pop(g)
    /\ cancelled' = [cancelled EXCEPT ![g] = TRUE]
    /\ tpc' = [tpc EXCEPT ![Main(g)] = "exited"]
    /\ UNCHANGED <<ws, pc, derived, handlers, mu, tNote, tNext, qClosed, held,
                   rdWs, wire, nConn, nFrames, engine, nIce, ghosts,
                   appRet, panicked>>

\* (variant: a ping is taken and not answered)
HandlePingSilent(g) ==
    /\ ~panicked
    /\ Taking(g, "ping")
    /\ queue' = Pop(g)
    /\ UNCHANGED <<ws, pc, derived, handlers, mu, tpc, tNote, tNext, qClosed,
                   cancelled, held, rdWs, wire, nConn, nFrames, engine, nIce,
                   ghosts, appRet, panicked>>

\* handleMessage, lines 505-506: sendPongMessage, its error dropped.
HandlePing(g) ==
    /\ ~panicked
    /\ Taking(g, "ping")
    /\ queue' = Pop(g)
    /\ sent' = sendMsg(sent, "pong")
    /\ UNCHANGED <<ws, pc, derived, handlers, mu, tpc, tNote, tNext, qClosed,
                   cancelled, held, rdWs, wsState, wsCloseCnt, nConn, nFrames,
                   engine, nIce, ghosts, appRet, panicked>>

\* (variant: Disconnect first, the handler call after it finds the stub)
HandleByeLate(g) ==
    /\ ~panicked
    /\ Taking(g, "bye")
    /\ queue' = Pop(g)
    /\ tpc' = [tpc EXCEPT ![Main(g)] = "disc_want"]
    /\ tNote' = [tNote EXCEPT ![Main(g)] = NoNote]
    /\ tNext' = [tNext EXCEPT ![Main(g)] = "loop"]
    /\ UNCHANGED <<ws, pc, derived, handlers, mu, qClosed, cancelled, held, rdWs,
                   wire, nConn, nFrames, engine, nIce, ghosts, appRet, panicked>>

\* handleMessage, lines 507-509: the on-bye handler, then Disconnect.
HandleBye(g) ==
    /\ ~panicked
    /\ Taking(g, "bye")
    /\ queue' = Pop(g)
    /\ calls' = IF handlers["bye"] = "user"
                THEN [calls EXCEPT !["bye"] = @ + 1] ELSE calls
    /\ tpc' = [tpc EXCEPT ![Main(g)] = "disc_want"]
    /\ tNote' = [tNote EXCEPT ![Main(g)] = NoNote]
    /\ tNext' = [tNext EXCEPT ![Main(g)] = "loop"]
    /\ UNCHANGED <<ws, pc, derived, handlers, mu, qClosed, cancelled, held, rdWs,
                   wire, nConn, nFrames, engine, nIce, nReg, lastDisc,
                   lastOpen, appRet, panicked>>

\* handleMessage, lines 546-549.
rejectReason(f) == IF f.flag THEN "full" ELSE "REJECTED"

\* handleMessage, lines 540-551: Disconnect, then the on-disconnect handler.
HandleReject(g) ==
    /\ ~panicked
    /\ Taking(g, "reject")
    /\ queue' = Pop(g)
    /\ tpc' = [tpc EXCEPT ![Main(g)] = "disc_want"]
    /\ tNote' = [tNote EXCEPT ![Main(g)] =
                    [notify |-> TRUE, reason |-> rejectReason(Front(g)),
                     user |-> handlers["disconnect"] = "user"]]
    /\ tNext' = [tNext EXCEPT ![Main(g)] = "loop"]
    /\ UNCHANGED <<ws, pc, derived, handlers, mu, qClosed, cancelled, held, rdWs,
                   wire, nConn, nFrames, engine, nIce, ghosts,
                   appRet, panicked>>

\* createPeerConnection, lines 224-226: only VP8 gets a session.
CodecSupported == videoCodec = "VP8"

\* createPeerConnection, lines 325-330: the on-open handler is called when a
\* session was already stored.
createPeerConnectionOpens == pc # 0

\* --------------------------------------------------------------- the engine
\* pion's PeerConnection as the code uses it: a closed session fails every
\* call; a remote offer is refused on a bad description or while a local
\* offer is pending; a remote answer needs a pending local offer; an answer
\* can be created only for a remote offer.
CreateOfferFails(sg, s) == sg[s] = "closed"
SetRemoteOfferFails(sg, s, ok) == sg[s] \in {"closed", "have-local-offer"} \/ ~ok
SetRemoteAnswerFails(sg, s, ok) == sg[s] # "have-local-offer" \/ ~ok
CreateAnswerFails(sg, s) == sg[s] # "have-remote-offer"

\* c.pc may turn nil between an unlocked nil check and the call on it: a
\* close-poll goroutine or a concurrent Disconnect clears a closed session.
PcRace(t) == pc # 0 /\ sig[pc] = "closed" /\ (pollers > 0 \/ Tearing(t))
WsRace(t) == ws # 0 /\ Tearing(t)

\* (variant: an offer whatever isExistUser says)
sendOfferAlways(flag, p) == p # 0
\* handleMessage, lines 537-538, and sendOffer, lines 335-337: an offer is
\* made when the peer pre-existed and a session is stored.
sendOfferRuns(flag, p) == flag /\ p # 0

\* handleMessage, lines 510-539, with createPeerConnection (223-332: the new
\* session replaces c.pc, the old one is not closed) and sendOffer (334-350).
HandleAccept(g) ==
    /\ ~panicked
    /\ Taking(g, "accept")
    /\ CodecSupported => nSess < MaxSess
    /\ LET f == Front(g)
           created == CodecSupported
           p == IF created THEN nSess + 1 ELSE pc
           sig1 == IF created THEN [sig EXCEPT ![p] = "stable"] ELSE sig
           offering == sendOfferRuns(f.flag, p)
           offerErr == offering /\ CreateOfferFails(sig1, p)
           offered == offering /\ ~offerErr
       IN
        /\ queue' = Pop(g)
        /\ connectionID' = f.id
        /\ authzMetadata' = f.id
        /\ isExistClient' = f.flag
        /\ nSess' = IF created THEN p ELSE nSess
        /\ pc' = p
        /\ iceCb' = IF created THEN [iceCb EXCEPT ![p] = TRUE] ELSE iceCb
        /\ IF created /\ createPeerConnectionOpens /\ handlers["open"] = "user"
           THEN /\ calls' = [calls EXCEPT !["open"] = @ + 1]
                /\ lastOpen' = f.id
           ELSE UNCHANGED <<calls, lastOpen>>
        /\ sig' = IF offered THEN [sig1 EXCEPT ![p] = "have-local-offer"] ELSE sig1
        /\ sent' = IF offered THEN sendMsg(sent, "offer") ELSE sent
        /\ isOffer' = IF offered THEN TRUE ELSE isOffer
        /\ IF offerErr
           THEN /\ cancelled' = [cancelled EXCEPT ![g] = TRUE]
                /\ tpc' = [tpc EXCEPT ![Main(g)] = "exited"]
           ELSE UNCHANGED <<tpc, cancelled>>
    /\ UNCHANGED <<ws, connectionState, handlers, mu, tNote, tNext, qClosed,
                   held, rdWs, wsState, wsCloseCnt, nConn, nFrames,
                   pcCloseCnt, pollers, videoCodec, nIce, nReg, lastDisc,
                   appRet, panicked>>

\* handleMessage, lines 557-559: glare, a session waits for its offer's answer.
Glare == pc # 0 /\ sig[pc] = "have-local-offer"

\* handleMessage, lines 552-560, with createPeerConnection on glare and
\* setOffer (383-393) up to the call of createAnswer.
HandleOffer(g) ==
    /\ ~panicked
    /\ Taking(g, "offer")
    /\ (Glare /\ CodecSupported) => nSess < MaxSess
    /\ LET f == Front(g)
           created == Glare /\ CodecSupported
           p == IF created THEN nSess + 1 ELSE pc
           sig1 == IF created THEN [sig EXCEPT ![p] = "stable"] ELSE sig
           remoteErr == p # 0 /\ SetRemoteOfferFails(sig1, p, f.flag)
       IN
        /\ queue' = Pop(g)
        /\ nSess' = IF created THEN p ELSE nSess
        /\ pc' = p
        /\ iceCb' = IF created THEN [iceCb EXCEPT ![p] = TRUE] ELSE iceCb
        /\ IF created /\ createPeerConnectionOpens /\ handlers["open"] = "user"
           THEN /\ calls' = [calls EXCEPT !["open"] = @ + 1]
                /\ lastOpen' = authzMetadata
           ELSE UNCHANGED <<calls, lastOpen>>
        /\ sig' = IF p # 0 /\ ~remoteErr
                  THEN [sig1 EXCEPT ![p] = "have-remote-offer"] ELSE sig1
        /\ IF p = 0
           THEN UNCHANGED <<tpc, tNote, tNext>>
           ELSE IF remoteErr
           THEN /\ tpc' = [tpc EXCEPT ![Main(g)] = "disc_want"]
                /\ tNote' = [tNote EXCEPT ![Main(g)] =
                                [notify |-> TRUE, reason |-> "CREATE-OFFER-ERROR",
                                 user |-> handlers["disconnect"] = "user"]]
                /\ tNext' = [tNext EXCEPT ![Main(g)] = "exit"]
           ELSE /\ tpc' = [tpc EXCEPT ![Main(g)] = "answer"]
                /\ UNCHANGED <<tNote, tNext>>
    /\ UNCHANGED <<ws, derived, handlers, mu, qClosed, cancelled, held, rdWs,
                   wire, nConn, nFrames, pcCloseCnt, pollers,
                   videoCodec, nIce, nReg, lastDisc, appRet, panicked>>

\* (variant: the answer is created and not sent)
CreateAnswerNoSend(g) ==
    /\ ~panicked
    /\ tpc[Main(g)] = "answer"
    /\ tpc' = [tpc EXCEPT ![Main(g)] = "loop"]
    /\ sig' = IF pc # 0 /\ ~CreateAnswerFails(sig, pc)
              THEN [sig EXCEPT ![pc] = "stable"] ELSE sig
    /\ UNCHANGED <<ws, pc, derived, handlers, mu, tNote, tNext, chans, wire,
                   nConn, nFrames, nSess, pcCloseCnt, iceCb, pollers, videoCodec,
                   nIce, ghosts, appRet, panicked>>

\* createAnswer, lines 352-369, called by setOffer (394-398).
CreateAnswer(g) ==
    /\ ~panicked
    /\ tpc[Main(g)] = "answer"
    /\ IF pc = 0
       THEN /\ tpc' = [tpc EXCEPT ![Main(g)] = "loop"]
            /\ UNCHANGED <<tNote, tNext, sig, sent>>
       ELSE IF CreateAnswerFails(sig, pc)
       THEN /\ tpc' = [tpc EXCEPT ![Main(g)] = "disc_want"]
            /\ tNote' = [tNote EXCEPT ![Main(g)] =
                            [notify |-> TRUE, reason |-> "CREATE-ANSWER-ERROR",
                             user |-> handlers["disconnect"] = "user"]]
            /\ tNext' = [tNext EXCEPT ![Main(g)] = "exit"]
            /\ UNCHANGED <<sig, sent>>
       ELSE /\ sig' = [sig EXCEPT ![pc] = "stable"]
            /\ sent' = sendMsg(sent, "answer")
            /\ tpc' = [tpc EXCEPT ![Main(g)] = "loop"]
            /\ UNCHANGED <<tNote, tNext>>
    /\ UNCHANGED <<ws, pc, derived, handlers, mu, chans, wsState, wsCloseCnt,
                   nConn, nFrames, nSess, pcCloseCnt, iceCb, pollers,
                   videoCodec, nIce, ghosts, appRet, panicked>>

\* handleMessage, lines 561-566, with setAnswer (371-381): a failure is
\* returned, main leaves its loop.
HandleAnswer(g) ==
    /\ ~panicked
    /\ Taking(g, "answer")
    /\ queue' = Pop(g)
    /\ IF pc = 0
       THEN UNCHANGED <<sig, tpc, cancelled>>
       ELSE IF SetRemoteAnswerFails(sig, pc, Front(g).flag)
       THEN /\ cancelled' = [cancelled EXCEPT ![g] = TRUE]
            /\ tpc' = [tpc EXCEPT ![Main(g)] = "exited"]
            /\ UNCHANGED sig
       ELSE /\ sig' = [sig EXCEPT ![pc] = "stable"]
            /\ UNCHANGED <<tpc, cancelled>>
    /\ UNCHANGED <<ws, pc, derived, handlers, mu, tNote, tNext, qClosed, held,
                   rdWs, wire, nConn, nFrames, nSess, pcCloseCnt,
                   iceCb, pollers, videoCodec, nIce, ghosts, appRet, panicked>>

\* sendMsg (172-176) and the session calls (335-339, 353-357, 372-375,
\* 384-387) read c.ws / c.pc twice without the lock: when the field turns nil
\* in between, the call dereferences nil.
HandleRace(g) ==
    /\ ~panicked
    /\ \/ Taking(g, "ping") /\ WsRace(Main(g))
       \/ Taking(g, "accept") /\ Front(g).flag /\ CodecSupported /\ WsRace(Main(g))
       \/ (Taking(g, "offer") \/ Taking(g, "answer")) /\ ~Glare /\ PcRace(Main(g))
       \/ tpc[Main(g)] = "answer" /\ (PcRace(Main(g)) \/ WsRace(Main(g)))
    /\ panicked' = TRUE
    /\ queue' = IF tpc[Main(g)] = "loop" THEN Pop(g) ELSE queue
    /\ UNCHANGED <<ws, pc, derived, handlers, mu, tpc, tNote, tNext, qClosed,
                   cancelled, held, rdWs, wire, nConn, nFrames, engine, nIce,
                   ghosts, appRet>>

\* ------------------------------------------------------- the engine callback
\* OnICEConnectionStateChange, lines 304-319, for a session whose callback
\* closePeerConnection has not replaced (line 420).
IceChange(s, st) ==
    /\ ~panicked
    /\ tpc[Ice] = "idle"
    /\ nIce < MaxIce
    /\ s <= nSess /\ iceCb[s] /\ sig[s] # "closed"
    /\ nIce' = nIce + 1
    /\ IF connectionState # st
       THEN /\ connectionState' = st
            /\ IF st = "connected"
               THEN /\ isOffer' = FALSE
                    /\ calls' = IF handlers["connect"] = "user"
                                THEN [calls EXCEPT !["connect"] = @ + 1]
                                ELSE calls
                    /\ UNCHANGED <<tpc, tNote, tNext>>
               ELSE /\ tpc' = [tpc EXCEPT ![Ice] = "disc_want"]
                    /\ tNote' = [tNote EXCEPT ![Ice] =
                                    [notify |-> TRUE,
                                     reason |-> "ICE-CONNECTION-STATE-FAILED",
                                     user |-> handlers["disconnect"] = "user"]]
                    /\ tNext' = [tNext EXCEPT ![Ice] = "idle"]
                    /\ UNCHANGED <<isOffer, calls>>
       ELSE UNCHANGED <<connectionState, isOffer, calls, tpc, tNote, tNext>>
    /\ UNCHANGED <<ws, pc, authzMetadata, connectionID, isExistClient, handlers,
                   mu, chans, wire, nConn, nFrames, engine, nReg, lastDisc,
                   lastOpen, appRet, panicked>>

\* Steps of the tasks a Connect started, but for the frames they read.
Background ==
    \/ \E t \in Tasks : DisconnectLock(t) \/ DisconnectBody(t)
                         \/ DisconnectPanic(t) \/ Notify(t)
    \/ PollTick
    \/ \E g \in Gens : RecvBegin(g) \/ RecvNil(g) \/ RecvUnblock(g)
                        \/ RecvReadErr(g) \/ RecvDone(g) \/ MainClosed(g)

\* One Connect, every frame, the engine's callback.
Next ==
    \/ ConnectReject \/ ConnectCheck(MaxConn) \/ ConnectDialFail \/ ConnectDialOk
    \/ ConnectRegister \/ AppDisconnect
    \/ Background
    \/ PollPanic
    \/ \E g \in Gens : \E f \in AllFrames : RecvFrame(g, f)
    \/ \E g \in Gens : HandleInvalid(g) \/ HandlePing(g)
                        \/ HandleBye(g) \/ HandleReject(g) \/ HandleAccept(g)
                        \/ HandleOffer(g) \/ CreateAnswer(g) \/ HandleAnswer(g)
                        \/ HandleRace(g)
    \/ \E s \in Sessions : \E st \in Phases : IceChange(s, st)

Spec == Init /\ [][Next]_vars

\* The same, with a consumer that registers an on-disconnect handler.
NextCb == Next \/ OnDisconnect

SpecCb == Init /\ [][NextCb]_vars

\* The frames of the reuse scenarios.
ReuseFrames == {f \in AllFrames : f.type = "accept"}

\* Connect -> Disconnect -> Connect on one Connection: the tasks of the first
\* Connect are still running when the second one starts.
NextReuse ==
    \/ ConnectReject \/ ConnectCheck(MaxConn + 1) \/ ConnectDialFail
    \/ ConnectDialOk \/ ConnectRegister \/ AppDisconnect
    \/ Background
    \/ \E g \in Gens : \E f \in ReuseFrames : RecvFrame(g, f)
    \/ \E g \in Gens : HandleAccept(g) \/ HandleRace(g)

SpecReuse == Init /\ [][NextReuse]_vars

\* One Connect, with a consumer that registers an on-open handler.
NextOpen == Next \/ OnOpen

SpecOpen == Init /\ [][NextOpen]_vars


\* The frames of the full-queue scenarios: an accept, an offer the engine
\* refuses, a ping.
StallFrames ==
    {f \in AllFrames : \/ f.type = "accept" /\ ~f.flag
                       \/ f.type = "offer" /\ ~f.flag
                       \/ f.type = "ping"}
StallLen == MaxFrames + 2

\* One Connect and a server that sends enough frames to fill the queue behind
\* the frame being handled.
NextStall ==
    \/ ConnectCheck(MaxConn) \/ ConnectDialFail \/ ConnectDialOk \/ ConnectRegister
    \/ Background
    \/ \E g \in Gens : \E f \in StallFrames : RecvFrameUpTo(g, f, StallLen)
    \/ \E g \in Gens : HandlePing(g) \/ HandleAccept(g) \/ HandleOffer(g)

SpecStall == Init /\ [][NextStall]_vars


\* One Connect, with a consumer that registers an on-bye handler.
NextBye == Next \/ OnBye

SpecBye == Init /\ [][NextBye]_vars

\* ================================================================ claims
\* Steps, as the variables show them.
PingStep(g) == Taking(g, "ping") /\ queue'[g] = Tail(queue[g])
AcceptStep(g) == Taking(g, "accept") /\ queue'[g] = Tail(queue[g])
OfferStep(g) == Taking(g, "offer") /\ queue'[g] = Tail(queue[g])
InvalidStep(g) ==
    /\ Taking(g, "badjson") \/ Taking(g, "unknown")
    /\ queue'[g] = Tail(queue[g])
CreateAnswerStep(g) == tpc[Main(g)] = "answer" /\ tpc'[Main(g)] # "answer"
BodyStep(t) == tpc[t] = "disc_held" /\ tpc'[t] # "disc_held"
NotifyStep(t) == tpc[t] = "notify" /\ tpc'[t] # "notify"
OneMore(kind, t) == sent' = [sent EXCEPT ![t][kind] = @ + 1]
Usable == ws # 0 /\ wsState[ws] = "open"
Writes(kind) == \E t \in Gens : sent'[t][kind] # sent[t][kind]

\* C1 as stated: every ping the dispatch task handles writes exactly one pong,
\* and a pong is written only by handling a ping.
C1_PongPerPing ==
    [][/\ \A g \in Gens : PingStep(g) => \E t \in Gens : OneMore("pong", t)
       /\ Writes("pong") => \E g \in Gens : PingStep(g)]_vars

\* C1, amended: a ping handled while c.ws is set and that transport is open
\* writes exactly one pong on it, in the step that handles the ping; a ping
\* handled after a teardown cleared c.ws, or after the transport failed,
\* writes nothing; a ping handled while another task clears c.ws inside
\* sendMsg may end in a nil dereference; a pong is written only by handling a
\* ping.
C1_PongWhenUsable ==
    [][/\ \A g \in Gens : PingStep(g) =>
            IF panicked' THEN sent' = sent /\ ws # 0 /\ mu # NoTask
            ELSE IF Usable THEN OneMore("pong", ws)
            ELSE sent' = sent
       /\ Writes("pong") => \E g \in Gens : PingStep(g)]_vars

\* C1: a pong has been written.
C1_Witness == \E t \in Gens : sent[t]["pong"] > 0

\* C2: the notification that follows a dispatched reject calls the handler
\* the consumer had registered, once, with the frame's reason ("REJECTED" for
\* an absent or empty one), and the transport is closed by then.
C2_RejectNotifies ==
    [][\A g \in Gens :
        (/\ NotifyStep(Main(g))
         /\ tNote[Main(g)].reason \in {"full", "REJECTED"}
         /\ tNote[Main(g)].user)
        => /\ calls'["disconnect"] = calls["disconnect"] + 1
           /\ lastDisc' = tNote[Main(g)].reason
           /\ \A t \in Gens : wsState[t] \in {"unopened", "closed"}]_vars

\* C3: every Disconnect leaves the five handlers no-op stubs and the derived
\* state initial, and while a transport is stored the connection id and the
\* authorization metadata are initial or those of an accept read from that
\* transport: nothing of an earlier Connect shows.
C3_NothingLeaks ==
    [][/\ \A t \in Tasks : BodyStep(t) =>
            /\ handlers' = Stubs
            /\ connectionID' = 0 /\ authzMetadata' = 0
            /\ connectionState' = "new"
            /\ ~isOffer' /\ ~isExistClient'
       /\ ws' # 0 => connectionID' \in {0, ws'} /\ authzMetadata' \in {0, ws'}]_vars

LiveSessions == {s \in Sessions : sig[s] \notin {"none", "closed"}}

\* C5: an offer dispatched on glare closes the session that waited for its
\* answer and stores a new one, and at most one session is ever live.
C5_OneLiveSession ==
    [][/\ \A g \in Gens : (OfferStep(g) /\ Glare) =>
            pc' # pc /\ sig'[pc] = "closed"
       /\ Cardinality({s \in Sessions : sig'[s] \notin {"none", "closed"}}) <= 1]_vars

\* C6: a Connect that follows a returned Disconnect is not rejected.
C6_ConnectAfterDisconnect ==
    [][~(appRet = "disconnect" /\ appRet' = "connect-error")]_vars

\* C7: a transport's Close and a session's Close are each called at most
\* once; every opened transport that is not closed is the stored handle, so
\* none is left open once a Disconnect has run; a Disconnect closes the
\* transport and the session it finds stored, and calls no Close when both
\* handles are nil.
C7_CloseOnce ==
    [][/\ \A t \in Gens : wsCloseCnt'[t] <= 1
       /\ \A s \in Sessions : pcCloseCnt'[s] <= 1
       /\ \A t \in Gens : wsState'[t] \in {"open", "broken"} => ws' = t
       /\ \A t \in Gens : (wsState'[t] = "closed") = (wsCloseCnt'[t] = 1)
       /\ \A t \in Tasks : BodyStep(t) =>
            /\ ws' = 0
            /\ ws # 0 => wsCloseCnt'[ws] = 1 /\ wsCloseCnt[ws] = 0
            /\ pc # 0 => sig'[pc] = "closed" /\ pcCloseCnt'[pc] = 1
            /\ (ws = 0 /\ pc = 0) =>
                    wsCloseCnt' = wsCloseCnt /\ pcCloseCnt' = pcCloseCnt
                    /\ sig' = sig /\ wsState' = wsState]_vars

\* C7: the consumer's Disconnect, the read task's teardown and the teardown of
\* an engine failure have all run on one transport and one session.
C7_Witness ==
    /\ appRet = "disconnect"
    /\ tpc[Recv(1)] = "exited"
    /\ tNote[Ice].notify /\ tpc[Ice] = "idle"
    /\ wsCloseCnt[1] = 1 /\ pcCloseCnt[1] = 1

\* C8: a Connect gets past the check only when no transport and no session is
\* stored; one called while either is stored returns the error and changes
\* nothing else.
C8_ConnectRejected ==
    [][/\ nConn' # nConn => ws = 0 /\ pc = 0
       /\ (appRet' = "connect-error" /\ appRet # "connect-error") =>
            /\ ws # 0 \/ pc # 0
            /\ UNCHANGED <<ws, pc, derived, handlers, mu, tpc, tNote, tNext,
                           chans, wire, nConn, nFrames, engine, nIce, ghosts,
                           panicked>>]_vars

\* C8: a Connect was rejected while a transport was stored.
C8_Witness == appRet = "connect-error" /\ ws # 0

C10_AnswerPerOffer ==
    [][\A g \in Gens :
        (CreateAnswerStep(g) /\ connectionID # 0 /\ ~isExistClient)
        => \E t \in Gens : OneMore("answer", t)]_vars

\* C10, amended: handling a dispatched offer the engine accepted writes
\* exactly one answer and no offer when, as createAnswer runs, the session
\* still holds that remote offer, c.ws is set and that transport is open; it
\* writes nothing when a teardown or a failed read came in between (or ends
\* in a nil dereference when c.pc or c.ws is cleared under it); taking the
\* offer off the queue writes nothing, and answers are written only so.
C10_AnswerWhenUsable ==
    [][/\ \A g \in Gens : CreateAnswerStep(g) =>
            IF /\ ~panicked' /\ pc # 0 /\ sig[pc] = "have-remote-offer" /\ Usable
            THEN OneMore("answer", ws)
            ELSE sent' = sent
       /\ \A g \in Gens : OfferStep(g) => sent' = sent
       /\ Writes("answer") => \E g \in Gens : CreateAnswerStep(g)]_vars

\* C10: accept with isExistUser=false, then an offer: one answer, no offer.
C10_Witness ==
    /\ sent[1]["answer"] = 1 /\ sent[1]["offer"] = 0
    /\ connectionID = 1 /\ ~isExistClient /\ pc # 0 /\ sig[pc] = "stable"

\* C11: dispatching an accept that creates the session calls the on-open
\* handler the consumer registered, once, with that accept's authorization
\* metadata.
C11_OpenOnAccept ==
    [][\A g \in Gens :
        (/\ AcceptStep(g) /\ videoCodec = "VP8" /\ ~panicked'
         /\ handlers["open"] = "user")
        => /\ calls'["open"] = calls["open"] + 1
           /\ lastOpen' = Front(g).id]_vars

\* A step writes a shared field or calls a consumer's handler.
SharedWrite ==
    \/ <<ws, pc, derived, handlers>>' # <<ws, pc, derived, handlers>>
    \/ calls' # calls
\* The step is the locked part of a Disconnect, or an On* registration
\* (lock, store, unlock in one step).
LockedStep == (\E t \in Tasks : mu = t /\ BodyStep(t)) \/ nReg' # nReg

\* C12: every write of a shared field and every call of a handler is made by
\* a task that holds callbackMu.
C12_WritesUnderLock == [][SharedWrite => LockedStep]_vars

\* C13: a failed read closes the frame queue; the dispatch task, when it ends
\* on the closed queue, has taken every queued frame in order; the read task
\* starts its teardown only after the dispatch task has ended; and the handler
\* call that follows that teardown reaches the on-disconnect handler the
\* consumer had registered, once, with reason "EXIT-RECV".
C13_ReadFailure ==
    [][\A g \in Gens :
        /\ (tpc[Recv(g)] = "reading" /\ tpc'[Recv(g)] = "wait") => qClosed'[g]
        /\ (qClosed[g] /\ tpc[Main(g)] # "exited" /\ tpc'[Main(g)] = "exited")
            => queue'[g] = <<>>
        /\ (tpc[Recv(g)] = "wait" /\ tpc'[Recv(g)] = "disc_want")
            => tpc[Main(g)] = "exited"
        /\ (NotifyStep(Recv(g)) /\ tNote[Recv(g)].user)
            => /\ calls'["disconnect"] = calls["disconnect"] + 1
               /\ lastDisc' = "EXIT-RECV"]_vars

\* C14: the read task never waits on a channel send that nothing can receive:
\* while it is blocked on a queue that is full the dispatch task is running
\* (once the dispatch task has ended no frame leaves the queue, so such a read
\* task never finishes and its teardown never runs).
C14_NoStuckSend ==
    \A g \in Gens :
        (tpc[Recv(g)] = "blocked" /\ Len(queue[g]) >= QueueCap)
        => tpc[Main(g)] # "exited"

AnswerStep(g) == Taking(g, "answer") /\ queue'[g] = Tail(queue[g])

\* C15: an answer whose remote description the engine refuses is a no-op: the
\* dispatch task stays in its loop, its ctx is not cancelled, no teardown is
\* started and transport, session and negotiation state are unchanged.
C15_AnswerFailureNoOp ==
    [][\A g \in Gens :
        (/\ AnswerStep(g) /\ ~panicked'
         /\ pc # 0 /\ SetRemoteAnswerFails(sig, pc, Front(g).flag))
        => /\ tpc'[Main(g)] = "loop" /\ cancelled' = cancelled
           /\ UNCHANGED <<ws, pc, derived, handlers, wire, engine, ghosts>>]_vars

\* C16: a report of the recorded phase changes nothing; a change to connected
\* records it, clears isOffer and calls the registered on-connect handler
\* once; a change to disconnected or failed records it and starts a teardown
\* that closes the stored transport and resets the derived state, after which
\* the on-disconnect handler the consumer had registered is called once.
C16_PhaseChange ==
    [][/\ nIce' # nIce =>
            \/ UNCHANGED <<ws, pc, derived, handlers, mu, tpc, tNote, tNext,
                           chans, wire, engine, ghosts>>
            \/ /\ connectionState # "connected" /\ connectionState' = "connected"
               /\ ~isOffer'
               /\ calls'["connect"] =
                    calls["connect"] + (IF handlers["connect"] = "user" THEN 1 ELSE 0)
               /\ tpc' = tpc
            \/ /\ connectionState' \in {"disconnected", "failed"}
               /\ connectionState' # connectionState
               /\ tpc'[Ice] = "disc_want" /\ calls' = calls
       /\ BodyStep(Ice) => ws' = 0 /\ connectionState' = "new" /\ ~isOffer'
       /\ (NotifyStep(Ice) /\ tNote[Ice].user)
            => /\ calls'["disconnect"] = calls["disconnect"] + 1
               /\ lastDisc' = "ICE-CONNECTION-STATE-FAILED"]_vars

\* C17: a Connect whose dial fails reports it (a non-nil error, or a call of
\* the on-disconnect handler), stores no transport, starts no task and sends
\* no register message.
C17_DialFailureReported ==
    [][(tpc[App] = "dial" /\ tpc'[App] = "idle")
        => /\ appRet' = "connect-error" \/ calls'["disconnect"] > calls["disconnect"]
           /\ ws' = ws /\ sent' = sent
           /\ \A g \in Gens : tpc'[Recv(g)] = tpc[Recv(g)]
                              /\ tpc'[Main(g)] = tpc[Main(g)]]_vars

ByeStep(g) == Taking(g, "bye") /\ queue'[g] = Tail(queue[g])

\* C18: dispatching a bye calls the on-bye handler stored at that moment, once
\* (a registered one is counted), before any handler is reset, and calls it
\* nowhere else; the Disconnect that follows in the dispatch task clears the
\* transport handle, leaves the transport and the session it found stored
\* closed, the derived state initial and the handlers stubs; a closed
\* transport is never written again.
C18_ByeThenTeardown ==
    [][/\ \A g \in Gens : ByeStep(g) =>
            /\ calls' = [calls EXCEPT !["bye"] =
                            @ + (IF handlers["bye"] = "user" THEN 1 ELSE 0)]
            /\ handlers' = handlers /\ ws' = ws /\ pc' = pc
            /\ tpc'[Main(g)] = "disc_want" /\ ~tNote'[Main(g)].notify
       /\ calls'["bye"] # calls["bye"] => \E g \in Gens : ByeStep(g)
       /\ \A g \in Gens : BodyStep(Main(g)) =>
            /\ ws' = 0 /\ handlers' = Stubs
            /\ connectionID' = 0 /\ authzMetadata' = 0
            /\ connectionState' = "new" /\ ~isOffer' /\ ~isExistClient'
            /\ ws # 0 => wsState'[ws] = "closed"
            /\ pc # 0 => sig'[pc] = "closed"
       /\ \A t \in Gens : wsState[t] = "closed" => sent'[t] = sent[t]]_vars

\* C18: a bye was dispatched with a handler registered: it was called once,
\* and the teardown after it closed the transport and the session and reset
\* the handlers.
C18_Witness ==
    /\ calls["bye"] = 1 /\ nReg["bye"] = 1 /\ handlers = Stubs
    /\ tpc[Main(1)] = "loop" /\ tpc[App] = "idle" /\ appRet = "connect-nil"
    /\ ws = 0 /\ wsCloseCnt[1] = 1 /\ pcCloseCnt[1] = 1
    /\ connectionID = 0

\* C19: the Disconnect run by the read or dispatch task of one Connect closes
\* no transport but the one that Connect opened, closes no session while
\* another Connect's transport is stored, and resets no handler once a later
\* Connect has begun.
C19_OwnTransportOnly ==
    [][\A g \in Gens :
        (BodyStep(Recv(g)) \/ BodyStep(Main(g))) =>
            /\ \A t \in Gens \ {g} : /\ wsState'[t] = wsState[t]
                                     /\ wsCloseCnt'[t] = wsCloseCnt[t]
            /\ ws \notin {0, g} => sig' = sig
            /\ nConn > g => handlers' = handlers]_vars

\* C20: a stored session that is not closed implies a stored transport, and
\* while no transport is stored the connection id and the authorization
\* metadata are initial.
C20_SessionNeedsTransport ==
    /\ (pc # 0 /\ sig[pc] # "closed") => ws # 0
    /\ ws = 0 => connectionID = 0 /\ authzMetadata = 0
====
